---- MODULE Spec2Model ----
(***************************************************************************)
(* A model of the Bars component (src/src/components/Bars.tsx): the React  *)
(* function component that windows a data sequence, scales it and lays     *)
(* out bars, axes, ticks, labels and a hover tooltip, together with its    *)
(* hook state (measured label extents, hasMounted, hoveredIndex), its      *)
(* refs, its effects and its entrance timer.                               *)
(*                                                                         *)
(* Numbers.  JavaScript numbers are modelled as exact rationals extended   *)
(* with NaN, +Infinity and -Infinity (records [k, n, d]); rounding of      *)
(* IEEE doubles and the sign of zero are not modelled.                     *)
(* Data points are modelled by their value; labels are only displayed.    *)
(* barColor, strokeColorAxe and animated touch no state and no geometry    *)
(* and are left out.                                                       *)
(***************************************************************************)
EXTENDS Integers, Sequences, FiniteSets, TLC

(***************************************************************************)
(* Bounds of the model.                                                    *)
(***************************************************************************)
MaxLen    == 3   \* longest enumerated data sequence
MaxValue  == 2   \* data values are 0..MaxValue
MaxLiveLen == 2  \* longest data sequence of the props that change when mounted
MaxExtent == 1   \* a measured bounding box extent is 0..MaxExtent
MaxHovered == 2  \* the pointer enters the bars 0..MaxHovered
MaxMeasurePasses == 3  \* calls in a row that measurements may schedule
LongLen   == 51  \* length of the long data sequence (barWidth < 2)

(***************************************************************************)
(* JavaScript numbers.                                                     *)
(***************************************************************************)
Abs(x) == IF x < 0 THEN -x ELSE x

RECURSIVE Gcd(_, _)
Gcd(a, b) == IF b = 0 THEN a ELSE Gcd(b, a % b)

\* the finite number n/d (d # 0), in lowest terms with a positive denominator
Q(n, d) ==
    LET s == IF d < 0 THEN -1 ELSE 1
        g == Gcd(Abs(n), Abs(d))
    IN  [k |-> "fin", n |-> (s * n) \div g, d |-> (s * d) \div g]

N(i)  == [k |-> "fin", n |-> i, d |-> 1]
NaN   == [k |-> "nan", n |-> 0, d |-> 1]
PInf  == [k |-> "pinf", n |-> 0, d |-> 1]
NInf  == [k |-> "ninf", n |-> 0, d |-> 1]

IsNaN(a)    == a.k = "nan"
IsFinite(a) == a.k = "fin"

\* -1, 0 or 1; not used on NaN
Sign(a) ==
    CASE a.k = "pinf" -> 1
      [] a.k = "ninf" -> -1
      [] OTHER -> IF a.n > 0 THEN 1 ELSE IF a.n < 0 THEN -1 ELSE 0

SignedInf(s) == IF s > 0 THEN PInf ELSE NInf

Neg(a) ==
    CASE a.k = "nan"  -> NaN
      [] a.k = "pinf" -> NInf
      [] a.k = "ninf" -> PInf
      [] OTHER -> Q(-a.n, a.d)

Add(a, b) ==
    CASE IsNaN(a) \/ IsNaN(b) -> NaN
      [] IsFinite(a) /\ IsFinite(b) -> Q(a.n * b.d + b.n * a.d, a.d * b.d)
      [] IsFinite(a) -> b
      [] IsFinite(b) -> a
      [] OTHER -> IF a.k = b.k THEN a ELSE NaN

Sub(a, b) == Add(a, Neg(b))

Mul(a, b) ==
    CASE IsNaN(a) \/ IsNaN(b) -> NaN
      [] IsFinite(a) /\ IsFinite(b) -> Q(a.n * b.n, a.d * b.d)
      [] OTHER -> IF Sign(a) * Sign(b) = 0 THEN NaN
                  ELSE SignedInf(Sign(a) * Sign(b))

Div(a, b) ==
    CASE IsNaN(a) \/ IsNaN(b) -> NaN
      [] IsFinite(a) /\ IsFinite(b) ->
            IF b.n # 0 THEN Q(a.n * b.d, a.d * b.n)
            ELSE IF a.n = 0 THEN NaN ELSE SignedInf(Sign(a))
      [] IsFinite(a) -> N(0)
      [] IsFinite(b) -> SignedInf(Sign(a) * (IF Sign(b) < 0 THEN -1 ELSE 1))
      [] OTHER -> NaN

\* a < b in JavaScript: false whenever either side is NaN
Lt(a, b) ==
    CASE IsNaN(a) \/ IsNaN(b) -> FALSE
      [] IsFinite(a) /\ IsFinite(b) -> a.n * b.d < b.n * a.d
      [] OTHER -> /\ a.k # b.k
                  /\ (a.k = "ninf" \/ b.k = "pinf")

Gt(a, b) == Lt(b, a)
Le(a, b) == ~IsNaN(a) /\ ~IsNaN(b) /\ ~Lt(b, a)
Ge(a, b) == Le(b, a)

\* Math.max(...s): -Infinity for no argument, NaN if any argument is NaN
MathMax(s) ==
    LET args == { s[j] : j \in 1..Len(s) }
    IN  IF args = {} THEN NInf
        ELSE IF \E a \in args : IsNaN(a) THEN NaN
        ELSE CHOOSE m \in args : \A a \in args : ~Lt(m, a)

\* Math.min(a, b)
MathMin(a, b) ==
    IF IsNaN(a) \/ IsNaN(b) THEN NaN ELSE IF Lt(b, a) THEN b ELSE a

\* a sum of several terms
RECURSIVE Sum(_)
Sum(s) == IF s = <<>> THEN N(0) ELSE Add(Head(s), Sum(Tail(s)))

\* the value null of hoveredIndex
null == -1

(***************************************************************************)
(* The render function: lines 104-283.                                     *)
(***************************************************************************)
\* line 104
NormWidth(p) == IF p.width < 100 THEN 100 ELSE p.width

\* line 105
NormHeight(p) == IF p.height < 100 THEN 100 ELSE p.height

\* line 107
NormStroke(p) == IF p.strokeWidthAxe > 10 THEN 10 ELSE p.strokeWidthAxe

\* line 106 with an inclusive upper end
InWindowInclusive(i, initialValue, numberShownColumns) ==
    i <= numberShownColumns + initialValue /\ i >= initialValue

\* line 106 without its lower end
InWindowNoLowerEnd(i, initialValue, numberShownColumns) ==
    i < numberShownColumns + initialValue

\* the predicate of the filter of line 106, on the original index i
InWindow(i, initialValue, numberShownColumns) ==
    i < numberShownColumns + initialValue /\ i >= initialValue

\* the indices 0..len-1 in the order Array.prototype.filter visits them
Indices(len) == [j \in 1..len |-> j - 1]

\* the original indices (0-based) the filter of line 106 keeps, in order
WindowIndices(len, initialValue, numberShownColumns) ==
    LET Keep(i) == InWindow(i, initialValue, numberShownColumns)
    IN  SelectSeq(Indices(len), Keep)

\* line 106: data = data.filter(...), the visible slice
Window(data, initialValue, numberShownColumns) ==
    LET idx == WindowIndices(Len(data), initialValue, numberShownColumns)
    IN  [j \in 1..Len(idx) |-> data[idx[j] + 1]]

\* the predicate of the filter of lines 109, 118, 207 and 219, on the index
\* i of the slice
IsShown(i, numberShownColumns) == i < numberShownColumns

\* lines 109, 118, 207, 219: data.filter((_, i) => i < numberShownColumns)
Shown(slice, numberShownColumns) ==
    LET Keep(i) == IsShown(i, numberShownColumns)
        idx == SelectSeq(Indices(Len(slice)), Keep)
    IN  [j \in 1..Len(idx) |-> slice[idx[j] + 1]]

\* line 109
MaxValueOf(slice, numberShownColumns) ==
    LET sh == Shown(slice, numberShownColumns)
    IN  MathMax([j \in 1..Len(sh) |-> N(sh[j])])

\* lines 110 and 235
BarWidth(width, numberShownColumns, sliceLen) ==
    Div(N(width), MathMin(N(numberShownColumns), N(sliceLen)))

\* line 111
EffectiveSpacing(barsSpacing, barWidth) ==
    IF Lt(N(barsSpacing), N(0)) THEN N(0)
    ELSE IF Gt(N(barsSpacing), barWidth) THEN Sub(barWidth, N(2))
    ELSE N(barsSpacing)

\* line 113
EffectivePaddingY(p, yLabelW) == IF p.yAxisLabelShow THEN yLabelW ELSE N(0)

\* line 114
EffectivePaddingX(p, xLabelW, tickH) ==
    Add(IF p.xAxisLabelShow THEN xLabelW ELSE N(0),
        IF p.showLabelsTickX THEN tickH ELSE N(0))

\* lines 119 and 236
BarHeight(value, maxValue, height) == Mul(Div(N(value), maxValue), N(height))

\* lines 120 and 238
BarY(barHeight, height, paddingYaxis, stroke) ==
    Sub(Add(Sub(N(height), barHeight), N(paddingYaxis)), Q(stroke, 2))

\* lines 150 and 237
BarX(i, barWidth, effPadY, paddingXaxis, stroke, spacing) ==
    Sum(<<Mul(N(i), barWidth), effPadY, N(paddingXaxis), N(stroke), spacing>>)

\* line 130 without the entrance flag: the stagger is kept after the entrance
FillDelayAlwaysStaggered(hasM, i, sliceLen) ==
    Add(Mul(Q(5, 100), N(i)), Mul(N(sliceLen), Q(75, 1000)))

\* line 130
FillDelay(hasM, i, sliceLen) ==
    IF hasM THEN N(0) ELSE Add(Mul(Q(5, 100), N(i)), Mul(N(sliceLen), Q(75, 1000)))

\* line 129
FillDuration(hasM) == IF hasM THEN Q(25, 100) ELSE N(1)

\* line 157
WhileHover(hasM) == IF hasM THEN "hover" ELSE "undefined"

\* lines 210, 212 and 223: the horizontal centre of bar i
TickX(i, barWidth, effPadY, paddingXaxis, stroke, spacing) ==
    Sum(<<Mul(N(i), barWidth), effPadY, N(paddingXaxis),
          Div(Sub(barWidth, spacing), N(2)), N(stroke), spacing>>)

\* line 233 without the entrance flag
TooltipGuardHoverOnly(hovered, hasM) == hovered # null

\* line 233: the guard of the tooltip
TooltipGuard(hovered, hasM) == hovered # null /\ hasM

\* line 234: data[hoveredIndex] is undefined outside the slice, and d.value
\* then throws a TypeError
TooltipThrows(hovered, hasM, slice) ==
    TooltipGuard(hovered, hasM) /\ hovered >= Len(slice)

\* lines 118-162: one <motion.rect> per shown data point (rx and ry, the
\* square root of the width, are cosmetic and left out)
Bars(sh, sliceLen, maxValue, barWidth, spacing, effPadY, p, hasM) ==
    [j \in 1..Len(sh) |->
        LET i      == j - 1
            height == NormHeight(p)
            stroke == NormStroke(p)
            barH   == BarHeight(sh[j], maxValue, height)
        IN  [ x            |-> BarX(i, barWidth, effPadY, p.paddingXaxis, stroke, spacing),
              width        |-> Sub(barWidth, spacing),
              y            |-> BarY(barH, height, p.paddingYaxis, stroke),
              height       |-> barH,
              fillDuration |-> FillDuration(hasM),
              fillDelay    |-> FillDelay(hasM, i, sliceLen),
              duration     |-> Mul(N(1), Div(N(sh[j]), maxValue)),
              delay        |-> Mul(N(i), Q(1, 10)),
              whileHover   |-> WhileHover(hasM) ]]

\* lines 164-173: the X axis line
XAxis(p, effPadY) ==
    IF ~p.showXaxis THEN <<>>
    ELSE << [ x1 |-> Sum(<<Q(NormStroke(p), 2), effPadY, N(p.paddingXaxis)>>),
              y1 |-> N(NormHeight(p) + p.paddingYaxis),
              x2 |-> Sum(<<N(NormWidth(p)), effPadY, N(p.paddingXaxis), N(NormStroke(p))>>),
              y2 |-> N(NormHeight(p) + p.paddingYaxis) ] >>

\* lines 174-183: the Y axis line
YAxis(p, effPadY) ==
    IF ~p.showYaxis THEN <<>>
    ELSE << [ x1 |-> Sum(<<Q(NormStroke(p), 2), effPadY, N(p.paddingXaxis)>>),
              y1 |-> N(p.paddingYaxis),
              x2 |-> Sum(<<Q(NormStroke(p), 2), effPadY, N(p.paddingXaxis)>>),
              y2 |-> Add(N(NormHeight(p) + p.paddingYaxis), Q(NormStroke(p), 2)) ] >>

\* lines 184-194: the anchor of the X axis label
XLabel(p, effPadY, tickH) ==
    IF ~p.xAxisLabelShow THEN <<>>
    ELSE << [ x |-> Sum(<<Q(NormWidth(p), 2), N(p.paddingXaxis), effPadY>>),
              y |-> Add(N(NormHeight(p) + p.paddingYaxis + 35 + NormStroke(p)), tickH) ] >>

\* lines 195-206: the anchor of the Y axis label, before its rotate(-90)
YLabel(p, effPadY, effPadX) ==
    IF ~p.yAxisLabelShow THEN <<>>
    ELSE << [ x |-> Sub(N(-p.paddingYaxis), effPadY),
              y |-> Add(N(p.paddingXaxis), effPadX) ] >>

\* lines 207-217: one tick mark per shown data point
Ticks(sh, barWidth, spacing, effPadY, p) ==
    IF ~p.ticksXShown THEN <<>>
    ELSE [j \in 1..Len(sh) |->
            LET x == TickX(j - 1, barWidth, effPadY, p.paddingXaxis, NormStroke(p), spacing)
            IN  [ x1 |-> x, y1 |-> N(NormHeight(p) + p.paddingYaxis),
                  x2 |-> x, y2 |-> N(NormHeight(p) + p.paddingYaxis + 5) ]]

\* lines 219-231: one tick label anchor per shown data point
TickLabels(sh, barWidth, spacing, effPadY, tickH, p) ==
    IF ~p.showLabelsTickX THEN <<>>
    ELSE [j \in 1..Len(sh) |->
            [ x |-> TickX(j - 1, barWidth, effPadY, p.paddingXaxis, NormStroke(p), spacing),
              y |-> Add(N(NormHeight(p) + p.paddingYaxis + 5), tickH) ]]

\* lines 233-278: the tooltip over the hovered bar (not evaluated when
\* data[hoveredIndex] is undefined: TooltipThrows)
Tooltip(hovered, hasM, slice, maxValue, spacing, effPadY, p) ==
    IF ~TooltipGuard(hovered, hasM) \/ TooltipThrows(hovered, hasM, slice) THEN <<>>
    ELSE LET barWidth == BarWidth(NormWidth(p), p.numberShownColumns, Len(slice))
             barH     == BarHeight(slice[hovered + 1], maxValue, NormHeight(p))
             barX     == BarX(hovered, barWidth, effPadY, p.paddingXaxis,
                              NormStroke(p), spacing)
             barY     == BarY(barH, NormHeight(p), p.paddingYaxis, NormStroke(p))
         IN  << [ x      |-> Sub(Add(barX, Div(Sub(barWidth, spacing), N(2))), Q(80, 2)),
                  y      |-> Sub(Sub(barY, N(30)), N(10)),
                  width  |-> N(80),
                  height |-> N(30),
                  value  |-> slice[hovered + 1] ] >>

\* line 106, with the props of the call
Slice(p) == Window(p.data, p.initialValue, p.numberShownColumns)

\* lines 118, 207 and 219, with the props of the call: the data points that
\* get a bar, a tick and a tick label
ShownOf(p) == Shown(Slice(p), p.numberShownColumns)

\* lines 233-236: the call throws
Throws(p, hasM, hovered) == TooltipThrows(hovered, hasM, Slice(p))

\* lines 219-231: the number of tick labels the call renders
TickLabelCount(p) == IF p.showLabelsTickX THEN Len(ShownOf(p)) ELSE 0

\* lines 104-283: one call of the component function with props p and the
\* hook state (yW, xW, tH, hasM, hovered); ok is FALSE when the call throws
Render(p, yW, xW, tH, hasM, hovered) ==
    LET width    == NormWidth(p)
        height   == NormHeight(p)
        stroke   == NormStroke(p)
        slice    == Slice(p)
        sh       == ShownOf(p)
        maxValue == MaxValueOf(slice, p.numberShownColumns)
        barWidth == BarWidth(width, p.numberShownColumns, Len(slice))
        spacing  == EffectiveSpacing(p.barsSpacing, barWidth)
        effPadY  == EffectivePaddingY(p, yW)
        effPadX  == EffectivePaddingX(p, xW, tH)
    IN  [ ok         |-> ~Throws(p, hasM, hovered),
          width      |-> width,
          height     |-> height,
          data       |-> slice,
          maxValue   |-> maxValue,
          barWidth   |-> barWidth,
          barsSpacing |-> spacing,
          effectivePaddingY |-> effPadY,
          effectivePaddingX |-> effPadX,
          svgWidth   |-> Sum(<<N(width + 2 * p.paddingXaxis + stroke), effPadY, spacing>>),
          svgHeight  |-> Add(N(height + 2 * p.paddingYaxis + stroke), effPadX),
          bars       |-> Bars(sh, Len(slice), maxValue, barWidth, spacing, effPadY, p, hasM),
          xAxis      |-> XAxis(p, effPadY),
          yAxis      |-> YAxis(p, effPadY),
          xLabel     |-> XLabel(p, effPadY, tH),
          yLabel     |-> YLabel(p, effPadY, effPadX),
          ticks      |-> Ticks(sh, barWidth, spacing, effPadY, p),
          tickLabels |-> TickLabels(sh, barWidth, spacing, effPadY, tH, p),
          tooltip    |-> Tooltip(hovered, hasM, slice, maxValue, spacing, effPadY, p) ]

(***************************************************************************)
(* Props.                                                                  *)
(***************************************************************************)
\* lines 41-61: the default props (data has none; the empty list stands in)
Defaults ==
    [ data |-> <<>>, width |-> 500, height |-> 300, showXaxis |-> FALSE,
      showYaxis |-> FALSE, strokeWidthAxe |-> 1, numberShownColumns |-> 5,
      initialValue |-> 0, xAxisLabelShow |-> FALSE, yAxisLabelShow |-> FALSE,
      xAxisLabel |-> "", yAxisLabel |-> "", paddingXaxis |-> 0,
      paddingYaxis |-> 0, ticksXShown |-> FALSE, showLabelsTickX |-> FALSE,
      barsSpacing |-> 2 ]

\* every data sequence of at most MaxLen values
DataSet == UNION { [1..l -> 0..MaxValue] : l \in 0..MaxLen }

\* one data sequence of each length: MaxValue, MaxValue - 1, ..., 0, MaxValue, ...
Ramp(l) == [j \in 1..l |-> MaxValue - ((j - 1) % (MaxValue + 1))]

\* the long data sequence: with the minimum width 100 its bars are under 2 wide
LongData == Ramp(LongLen)

\* the window props over every data sequence
WindowFamily ==
    { [Defaults EXCEPT !.data = d, !.numberShownColumns = n, !.initialValue = iv] :
        d \in DataSet, n \in -1..MaxLen, iv \in -1..MaxLen }

\* the scale props: spacing below, inside and beyond the bar width
SpacingFamily ==
    { [Defaults EXCEPT !.data = d, !.numberShownColumns = n, !.barsSpacing = b,
                       !.width = w] :
        d \in {Ramp(1), Ramp(MaxLen)}, n \in {1, MaxLen},
        b \in {-1, 0, 2, 99, 100, 1000}, w \in {50, 100, 200} }

\* many bars: with the minimum width 100 each is under 2 wide
LongFamily ==
    { [Defaults EXCEPT !.data = LongData, !.numberShownColumns = LongLen,
                       !.barsSpacing = b, !.width = 100] : b \in {0, 1, 2} }

\* the decoration props: axes, ticks, paddings, stroke, height
DecorFamily ==
    { [Defaults EXCEPT !.data = d, !.showXaxis = ax, !.showYaxis = ax,
                       !.ticksXShown = tk, !.xAxisLabelShow = xl,
                       !.paddingXaxis = px, !.paddingYaxis = py,
                       !.strokeWidthAxe = sw, !.height = h] :
        d \in {Ramp(0), Ramp(2)}, ax \in BOOLEAN, tk \in BOOLEAN, xl \in BOOLEAN,
        px \in {0, 45}, py \in {0, 45}, sw \in {1, 12}, h \in {50, 300} }

\* the props that change while the component is mounted: data, window and
\* the three measured labels
LiveData == { Ramp(l) : l \in 0..MaxLiveLen }

LiveShown == {1, 5}

LiveProps ==
    { [Defaults EXCEPT !.data = d, !.numberShownColumns = n,
                       !.yAxisLabelShow = ys, !.xAxisLabelShow = xs,
                       !.showLabelsTickX = ts] :
        d \in LiveData, n \in LiveShown,
        ys \in BOOLEAN, xs \in BOOLEAN, ts \in BOOLEAN }

PropsSet ==
    WindowFamily \cup SpacingFamily \cup LongFamily \cup DecorFamily \cup LiveProps

\* the props that differ from p in exactly one field
OneChange(p) ==
    ( { [p EXCEPT !.data = d] : d \in LiveData }
      \cup { [p EXCEPT !.numberShownColumns = n] : n \in LiveShown }
      \cup { [p EXCEPT !.yAxisLabelShow = ~p.yAxisLabelShow],
             [p EXCEPT !.xAxisLabelShow = ~p.xAxisLabelShow],
             [p EXCEPT !.showLabelsTickX = ~p.showLabelsTickX] } ) \ {p}

\* what getBBox() may report for a rendered label
Extents == 0..MaxExtent

(***************************************************************************)
(* State.                                                                  *)
(***************************************************************************)
VARIABLES
    props,              \* the props of the latest call
    yLabelWidth,        \* line 63
    xLabelWidth,        \* line 66
    labelsTickXHeight,  \* line 69
    hasMounted,         \* line 71
    hoveredIndex,       \* line 73
    yLabelRef,          \* line 62: TRUE when .current is an element
    xLabelRef,          \* line 65
    labelsTickXRefs,    \* line 68: .current, TRUE for an element, FALSE for null
    timer,              \* lines 82-83: "none", "pending", "fired", "cleared"
    deps,               \* the dependency values of the last effect flush
    phase,              \* "new", "effects", "idle", "unmounted", "failed"
    cause,              \* what scheduled the latest call: "mount", "measure"
                        \* (a setter of an effect) or "event" (the timer,
                        \* a hover handler, the parent)
    measurePasses,      \* the calls measurements scheduled since the props were set
    lastMeasured        \* per channel, the latest extent getBBox() reported

vars == << props, yLabelWidth, xLabelWidth, labelsTickXHeight, hasMounted,
           hoveredIndex, yLabelRef, xLabelRef, labelsTickXRefs, timer, deps,
           phase, cause, measurePasses, lastMeasured >>

extents == << yLabelWidth, xLabelWidth, labelsTickXHeight >>

\* lines 79, 90, 102: the dependency arrays, as evaluated during the call
\* (data.length of line 102 is read before line 106 reassigns data)
DepsOf(p) ==
    [ mounted |-> TRUE, yAxisLabelShow |-> p.yAxisLabelShow,
      yAxisLabel |-> p.yAxisLabel, xAxisLabelShow |-> p.xAxisLabelShow,
      xAxisLabel |-> p.xAxisLabel, showLabelsTickX |-> p.showLabelsTickX,
      dataLength |-> Len(p.data) ]

NoDeps == [DepsOf(Defaults) EXCEPT !.mounted = FALSE]

\* line 79 without the dependency array: the effect runs after every call
YLabelDepsAlways(d, p) == TRUE

\* line 79
YLabelDepsChanged(d, p) ==
    ~d.mounted \/ d.yAxisLabelShow # p.yAxisLabelShow \/ d.yAxisLabel # p.yAxisLabel

\* line 90
XLabelDepsChanged(d, p) ==
    ~d.mounted \/ d.xAxisLabelShow # p.xAxisLabelShow \/ d.xAxisLabel # p.xAxisLabel

\* line 102
TickDepsChanged(d, p) ==
    ~d.mounted \/ d.showLabelsTickX # p.showLabelsTickX \/ d.dataLength # Len(p.data)

\* line 84: the empty dependency array, the effect runs on mount only
TimerDepsChanged(d, p) == ~d.mounted

\* line 76: the effect measures
YLabelMeasures(d, p, ref) == YLabelDepsChanged(d, p) /\ p.yAxisLabelShow /\ ref

\* line 87
XLabelMeasures(d, p, ref) == XLabelDepsChanged(d, p) /\ p.xAxisLabelShow /\ ref

\* line 93
TickMeasures(d, p, refs) ==
    TickDepsChanged(d, p) /\ p.showLabelsTickX /\ Len(refs) > 0

\* lines 94-96: the heights of the elements of labelsTickXRefs.current that
\* are not null, hs[i] being what getBBox() reports for element i
TickHeights(refs, hs) ==
    LET NotNull(j) == refs[j]
        idx == SelectSeq([j \in 1..Len(refs) |-> j], NotNull)
    IN  [j \in 1..Len(idx) |-> N(hs[idx[j]])]

\* lines 75-79 keeping the larger of the stored and the measured width
YLabelEffectKeepsLarger(d, p, ref, cur, m) ==
    IF YLabelMeasures(d, p, ref) /\ Gt(N(m), cur) THEN N(m) ELSE cur

\* lines 75-79: the next yLabelWidth, m being the measured width
YLabelEffect(d, p, ref, cur, m) ==
    IF YLabelMeasures(d, p, ref) THEN N(m) ELSE cur

\* lines 86-90: the next xLabelWidth, m being the measured height
XLabelEffect(d, p, ref, cur, m) ==
    IF XLabelMeasures(d, p, ref) THEN N(m) ELSE cur

\* lines 92-102: the next labelsTickXHeight
TickEffect(d, p, refs, cur, hs) ==
    IF TickMeasures(d, p, refs) THEN MathMax(TickHeights(refs, hs)) ELSE cur

\* lines 219-221: labelsTickXRefs.current after a commit that renders cnt
\* tick labels: the rendered ones hold their element, the others null
CommitTickRefs(refs, cnt) ==
    [i \in 1..(IF Len(refs) > cnt THEN Len(refs) ELSE cnt) |-> i <= cnt]

\* every ref is called with null when its element is removed
DetachTickRefs(refs) == [i \in 1..Len(refs) |-> FALSE]

\* lines 81-84 without the cleanup: the timer outlives the component
ClearTimeoutKeeps(t) == t

\* line 83: the cleanup of the timer effect
ClearTimeout(t) == IF t = "pending" THEN "cleared" ELSE t

(***************************************************************************)
(* Operations.  React calls the component function on mount, when its      *)
(* parent passes new props and when a state setter changed a value (a      *)
(* setter called with the current value schedules nothing); after the      *)
(* commit it flushes the effects whose dependencies changed, before it     *)
(* handles anything else.                                                  *)
(***************************************************************************)
InitState ==
    /\ yLabelWidth = N(0)
    /\ xLabelWidth = N(0)
    /\ labelsTickXHeight = N(0)
    /\ hasMounted = FALSE
    /\ hoveredIndex = null
    /\ yLabelRef = FALSE
    /\ xLabelRef = FALSE
    /\ labelsTickXRefs = <<>>
    /\ timer = "none"
    /\ deps = NoDeps
    /\ phase = "new"
    /\ cause = "none"
    /\ measurePasses = 0
    /\ lastMeasured = [y |-> N(0), x |-> N(0), t |-> N(0)]

Init == props \in LiveProps /\ InitState

InitFixed == props \in PropsSet /\ InitState

\* lines 41-283: one call of the component with props p and hook state
\* (yW, xW, tH, hasM, hov), then the commit, which attaches the refs of the
\* rendered labels; a call that throws tears the tree down.  tm is the
\* timer after the step, why is what scheduled the call.  What the call
\* returns is Output, a function of the props and the hook state.
Call(p, yW, xW, tH, hasM, hov, tm, why) ==
        /\ props' = p
        /\ yLabelWidth' = yW
        /\ xLabelWidth' = xW
        /\ labelsTickXHeight' = tH
        /\ hasMounted' = hasM
        /\ hoveredIndex' = hov
        /\ cause' = (IF why \in {"mount", "measure"} THEN why ELSE "event")
        /\ measurePasses' = (IF why = "measure" THEN measurePasses + 1 ELSE
                              IF why \in {"mount", "props"} THEN 0 ELSE measurePasses)
        /\ IF ~Throws(p, hasM, hov)
           THEN /\ phase' = "effects"
                /\ yLabelRef' = p.yAxisLabelShow
                /\ xLabelRef' = p.xAxisLabelShow
                /\ labelsTickXRefs' = CommitTickRefs(labelsTickXRefs, TickLabelCount(p))
                /\ timer' = tm
           ELSE /\ phase' = "failed"
                /\ yLabelRef' = FALSE
                /\ xLabelRef' = FALSE
                /\ labelsTickXRefs' = DetachTickRefs(labelsTickXRefs)
                /\ timer' = ClearTimeout(tm)

\* the first call, with the initial hook state of lines 63-73
Mount ==
    /\ phase = "new"
    /\ Call(props, yLabelWidth, xLabelWidth, labelsTickXHeight, hasMounted,
            hoveredIndex, timer, "mount")
    /\ UNCHANGED << deps, lastMeasured >>

\* lines 75-102: the effect flush after a commit.  The effects whose
\* dependencies changed run: the three measurements (my, mx, hs are what
\* getBBox() reports) and, on mount, the timer.  The setters are batched: one
\* further call if a value changed.
RunEffects ==
    /\ phase = "effects"
    /\ \E my \in (IF YLabelMeasures(deps, props, yLabelRef) THEN Extents ELSE {0}),
          mx \in (IF XLabelMeasures(deps, props, xLabelRef) THEN Extents ELSE {0}),
          hs \in (IF TickMeasures(deps, props, labelsTickXRefs)
                  THEN [1..Len(labelsTickXRefs) -> Extents]
                  ELSE {[i \in 1..Len(labelsTickXRefs) |-> 0]}) :
        LET yW == YLabelEffect(deps, props, yLabelRef, yLabelWidth, my)
            xW == XLabelEffect(deps, props, xLabelRef, xLabelWidth, mx)
            tH == TickEffect(deps, props, labelsTickXRefs, labelsTickXHeight, hs)
            tm == IF TimerDepsChanged(deps, props) THEN "pending" ELSE timer
        IN  /\ deps' = DepsOf(props)
            /\ lastMeasured' =
                 [ y |-> IF YLabelMeasures(deps, props, yLabelRef)
                         THEN N(my) ELSE lastMeasured.y,
                   x |-> IF XLabelMeasures(deps, props, xLabelRef)
                         THEN N(mx) ELSE lastMeasured.x,
                   t |-> IF TickMeasures(deps, props, labelsTickXRefs)
                         THEN MathMax(TickHeights(labelsTickXRefs, hs))
                         ELSE lastMeasured.t ]
            /\ IF << yW, xW, tH >> # extents
               THEN /\ measurePasses < MaxMeasurePasses
                    /\ Call(props, yW, xW, tH, hasMounted, hoveredIndex, tm, "measure")
               ELSE /\ phase' = "idle"
                    /\ timer' = tm
                    /\ UNCHANGED << props, yLabelWidth, xLabelWidth, labelsTickXHeight,
                                    hasMounted, hoveredIndex, yLabelRef, xLabelRef,
                                    labelsTickXRefs, cause, measurePasses >>

\* line 82: the timer callback, setHasMounted(true).  A timer that is still
\* pending runs its callback whether or not the component is still there: on
\* a mounted component the setter schedules a call, on a discarded one it
\* only writes the flag.
TimerFire ==
    /\ timer = "pending"
    /\ phase \in {"idle", "unmounted", "failed"}
    /\ IF phase = "idle"
       THEN /\ Call(props, yLabelWidth, xLabelWidth, labelsTickXHeight, TRUE,
                    hoveredIndex, "fired", "timer")
            /\ UNCHANGED << deps, lastMeasured >>
       ELSE /\ hasMounted' = TRUE
            /\ timer' = "fired"
            /\ UNCHANGED << props, yLabelWidth, xLabelWidth, labelsTickXHeight,
                            hoveredIndex, yLabelRef, xLabelRef, labelsTickXRefs,
                            deps, phase, cause, measurePasses, lastMeasured >>

\* line 158: onHoverStart of the rendered bar i, setHoveredIndex(i)
HoverStart ==
    /\ phase = "idle"
    /\ \E i \in 0..(Len(ShownOf(props)) - 1) :
        /\ i <= MaxHovered
        /\ i # hoveredIndex
        /\ Call(props, yLabelWidth, xLabelWidth, labelsTickXHeight, hasMounted,
                i, timer, "hover")
    /\ UNCHANGED << deps, lastMeasured >>

\* line 159: onHoverEnd, setHoveredIndex(null)
HoverEnd ==
    /\ phase = "idle"
    /\ hoveredIndex # null
    /\ Call(props, yLabelWidth, xLabelWidth, labelsTickXHeight, hasMounted,
            null, timer, "hover")
    /\ UNCHANGED << deps, lastMeasured >>

\* the parent renders the component again, with one prop changed
SetProps ==
    /\ phase = "idle"
    /\ \E p \in OneChange(props) :
        /\ Call(p, yLabelWidth, xLabelWidth, labelsTickXHeight, hasMounted,
                hoveredIndex, timer, "props")
    /\ UNCHANGED << deps, lastMeasured >>

\* the component is removed: the refs are called with null and the cleanup
\* of line 83 clears the timer
Unmount ==
    /\ phase = "idle"
    /\ phase' = "unmounted"
    /\ yLabelRef' = FALSE
    /\ xLabelRef' = FALSE
    /\ labelsTickXRefs' = DetachTickRefs(labelsTickXRefs)
    /\ timer' = ClearTimeout(timer)
    /\ UNCHANGED << props, yLabelWidth, xLabelWidth, labelsTickXHeight, hasMounted,
                    hoveredIndex, deps, cause, measurePasses, lastMeasured >>

\* what the latest call returned: the component function is pure in its
\* props and hook state, and every change of either is followed by a call
Output ==
    Render(props, yLabelWidth, xLabelWidth, labelsTickXHeight, hasMounted,
           hoveredIndex)

\* the component is mounted: a call has returned and the tree is up
Mounted == phase \in {"effects", "idle"}

Next ==
    \/ Mount
    \/ RunEffects
    \/ TimerFire
    \/ HoverStart
    \/ HoverEnd
    \/ SetProps
    \/ Unmount

\* the component with data and configuration that change while it is mounted
Spec == Init /\ [][Next]_vars

NextFixed ==
    \/ Mount
    \/ RunEffects
    \/ TimerFire
    \/ HoverStart
    \/ HoverEnd
    \/ Unmount

\* the component with data and configuration held fixed after mount
SpecFixed == InitFixed /\ [][NextFixed]_vars

(***************************************************************************)
(* Claims.                                                                 *)
(***************************************************************************)
Range(seq) == { seq[j] : j \in 1..Len(seq) }

\* C1: the visible slice consists of exactly the entries whose original
\* index i satisfies initialValue <= i < initialValue + numberShownColumns,
\* in their original order; with initialValue = 0 and numberShownColumns =
\* data.length it is the whole data sequence; and the re-filter
\* i < numberShownColumns of lines 109 and 118 removes nothing from it.
C1_WindowSelects ==
    Mounted =>
        LET d   == props.data
            iv  == props.initialValue
            n   == props.numberShownColumns
            idx == WindowIndices(Len(d), iv, n)
            o   == Output
        IN  /\ Range(idx) = { i \in 0..(Len(d) - 1) : iv <= i /\ i < iv + n }
            /\ \A j \in 1..(Len(idx) - 1) : idx[j] < idx[j + 1]
            /\ o.data = [j \in 1..Len(idx) |-> d[idx[j] + 1]]
            /\ (iv = 0 /\ n = Len(d) => o.data = d)
            /\ Shown(o.data, n) = o.data
            /\ Len(o.bars) = Len(o.data)

\* a window strictly inside the data: one entry before it, one after it
C1_Witness ==
    /\ Mounted
    /\ Len(props.data) = 3
    /\ props.initialValue = 1
    /\ props.numberShownColumns = 1
    /\ props.data[1] # props.data[2]
    /\ props.data[3] # props.data[2]
    /\ Output.data = << props.data[2] >>

\* C2 as stated: a negative initialValue, an initialValue at or beyond the
\* data length, or numberShownColumns <= 0 gives an empty slice and no bar.
C2_Original ==
    Mounted =>
        ( ( \/ props.initialValue < 0
            \/ props.initialValue >= Len(props.data)
            \/ props.numberShownColumns <= 0 )
          => Output.data = <<>> /\ Output.bars = <<>> )

\* C2, amended: an initialValue at or beyond the data length,
\* numberShownColumns <= 0, or initialValue + numberShownColumns <= 0 gives
\* an empty slice and no bar; a negative initialValue with
\* initialValue + numberShownColumns > 0 and data gives a slice that is not
\* empty.
C2_EmptyWindow ==
    Mounted =>
        LET o == Output
        IN  /\ ( ( \/ props.initialValue >= Len(props.data)
                   \/ props.numberShownColumns <= 0
                   \/ props.initialValue + props.numberShownColumns <= 0 )
                 => o.data = <<>> /\ o.bars = <<>> )
            /\ ( ( /\ props.initialValue < 0
                   /\ props.initialValue + props.numberShownColumns > 0
                   /\ props.data # <<>> )
                 => o.data # <<>> )

\* data, a negative initialValue, and a window that ends at index 0
C2_Witness ==
    /\ Mounted
    /\ props.data # <<>>
    /\ props.initialValue < 0
    /\ props.numberShownColumns > 0
    /\ props.initialValue + props.numberShownColumns <= 0
    /\ Output.bars = <<>>

\* C3: when the slice is not empty and every visible value is 0, every bar
\* has height 0, and no bar height, bar y, duration or tooltip y is the
\* result of a division by zero (each is a finite number).
C3_ZeroValues ==
    ( /\ Mounted
      /\ Output.data # <<>>
      /\ \A v \in Range(Output.data) : v = 0 )
    => /\ \A j \in 1..Len(Output.bars) :
            /\ Output.bars[j].height = N(0)
            /\ IsFinite(Output.bars[j].y)
            /\ IsFinite(Output.bars[j].duration)
       /\ \A j \in 1..Len(Output.tooltip) : IsFinite(Output.tooltip[j].y)

\* clamp(x, lo, hi)
Clamp(x, lo, hi) == IF Lt(x, lo) THEN lo ELSE IF Gt(x, hi) THEN hi ELSE x

\* C4: with a slice that is not empty, the effective spacing is
\* clamp(barsSpacing, 0, barWidth - 2): never negative, never more than
\* barWidth - 2, so that every bar is at least 2 wide.
C4_SpacingClamped ==
    ( Mounted /\ Output.data # <<>> )
    => /\ Output.barsSpacing
            = Clamp(N(props.barsSpacing), N(0), Sub(Output.barWidth, N(2)))
       /\ Ge(Output.barsSpacing, N(0))
       /\ Le(Output.barsSpacing, Sub(Output.barWidth, N(2)))
       /\ \A j \in 1..Len(Output.bars) : Ge(Output.bars[j].width, N(2))

\* C5: for two visible indices i < j the interval
\* [barX_i, barX_i + barWidth - effectiveSpacing] of bar i ends at or before
\* the start of the interval of bar j.
C5_NoOverlap ==
    Mounted =>
        \A i \in 1..Len(Output.bars) : \A j \in 1..Len(Output.bars) :
            i < j => Le(Add(Output.bars[i].x, Output.bars[i].width), Output.bars[j].x)

\* the point (x, y) lies in the canvas rectangle of o
InCanvas(o, x, y) ==
    /\ Ge(x, N(0)) /\ Le(x, o.svgWidth)
    /\ Ge(y, N(0)) /\ Le(y, o.svgHeight)

\* the rectangle r lies in the canvas rectangle of o
RectInCanvas(o, r) ==
    /\ InCanvas(o, r.x, r.y)
    /\ InCanvas(o, Add(r.x, r.width), Add(r.y, r.height))

\* the line l lies in the canvas rectangle of o
LineInCanvas(o, l) == InCanvas(o, l.x1, l.y1) /\ InCanvas(o, l.x2, l.y2)

\* C6: the canvas rectangle (0,0)-(canvasWidth, canvasHeight) contains
\* every bar rectangle, both axis lines, every tick mark, every tick label
\* anchor, the X axis label anchor and the tooltip rectangle.
C6_CanvasContains ==
    ( Mounted /\ Output.ok ) =>
        LET o == Output
        IN  /\ \A j \in 1..Len(o.bars) : RectInCanvas(o, o.bars[j])
            /\ \A j \in 1..Len(o.xAxis) : LineInCanvas(o, o.xAxis[j])
            /\ \A j \in 1..Len(o.yAxis) : LineInCanvas(o, o.yAxis[j])
            /\ \A j \in 1..Len(o.ticks) : LineInCanvas(o, o.ticks[j])
            /\ \A j \in 1..Len(o.tickLabels) :
                    InCanvas(o, o.tickLabels[j].x, o.tickLabels[j].y)
            /\ \A j \in 1..Len(o.xLabel) : InCanvas(o, o.xLabel[j].x, o.xLabel[j].y)
            /\ \A j \in 1..Len(o.tooltip) : RectInCanvas(o, o.tooltip[j])

\* C7: when the visible slice is empty the call returns, with no bar, no
\* tick and no tooltip, and a canvas whose width and height are finite and
\* at least 100.
C7_EmptySlice ==
    ( phase \in {"effects", "idle", "failed"} /\ Slice(props) = <<>> )
    => LET o == Output
       IN  /\ o.ok
           /\ o.bars = <<>>
           /\ o.ticks = <<>>
           /\ o.tooltip = <<>>
           /\ IsFinite(o.svgWidth) /\ Ge(o.svgWidth, N(100))
           /\ IsFinite(o.svgHeight) /\ Ge(o.svgHeight, N(100))

\* C8: after any sequence of hover-enter, hover-leave, re-render and timer
\* events the output holds a tooltip only if hoveredIndex is not null and
\* hasMounted is true; while hasMounted is false a hovered bar gives no
\* tooltip and no bar has the hover variant.
C8_TooltipGated ==
    phase # "new" =>
        LET o == Output
        IN  /\ o.tooltip # <<>> => hoveredIndex # null /\ hasMounted
            /\ ~hasMounted =>
                  /\ o.tooltip = <<>>
                  /\ \A j \in 1..Len(o.bars) : o.bars[j].whileHover # "hover"

\* a bar is hovered before the timer has fired
C8_Witness ==
    /\ phase = "idle"
    /\ timer = "pending"
    /\ ~hasMounted
    /\ hoveredIndex # null
    /\ hoveredIndex < Len(Output.bars)
    /\ Output.tooltip = <<>>

\* C9: the three measurement channels are independent and the last write
\* wins: each stored extent equals the latest measurement received on its
\* own channel (zero before any), whatever the other channels received, and
\* every call computes effectivePaddingY and effectivePaddingX from those
\* latest values.
C9_LastMeasurementWins ==
    phase # "new" =>
        LET o == Output
        IN  /\ yLabelWidth = lastMeasured.y
            /\ xLabelWidth = lastMeasured.x
            /\ labelsTickXHeight = lastMeasured.t
            /\ o.effectivePaddingY
                  = (IF props.yAxisLabelShow THEN lastMeasured.y ELSE N(0))
            /\ o.effectivePaddingX
                  = Add(IF props.xAxisLabelShow THEN lastMeasured.x ELSE N(0),
                        IF props.showLabelsTickX THEN lastMeasured.t ELSE N(0))

\* after the timer (so after the measurements of the mount) a later
\* measurement scheduled the latest call, and it left the Y channel at zero
\* beside two channels that hold a larger extent
C9_Witness ==
    /\ phase = "idle"
    /\ hasMounted
    /\ cause = "measure"
    /\ props.yAxisLabelShow /\ props.xAxisLabelShow /\ props.showLabelsTickX
    /\ yLabelWidth = N(0)
    /\ xLabelWidth = N(MaxExtent)
    /\ labelsTickXHeight = N(MaxExtent)
    /\ Output.effectivePaddingY = N(0)
    /\ Output.effectivePaddingX = N(2 * MaxExtent)

\* C10 as stated: with data and configuration fixed, once the effects of
\* the mount are flushed exactly one call was scheduled by the measurements,
\* and it is the latest call: no further call follows it.
C10_Original ==
    phase = "idle" => measurePasses = 1 /\ cause = "measure"

\* the first call uses the zero extents of lines 63, 66 and 69
C10_FirstPassZeros ==
    ( phase = "effects" /\ cause = "mount" )
    => LET o == Output
       IN  /\ extents = << N(0), N(0), N(0) >>
           /\ o.effectivePaddingY = N(0)
           /\ o.effectivePaddingX = N(0)

\* the one call the measurements schedule directly follows the first
C10_MeasuredCallIsSecond ==
    /\ measurePasses <= 1
    /\ ( cause = "measure" => measurePasses = 1 /\ ~hasMounted /\ hoveredIndex = null )
    /\ ( measurePasses = 0 /\ phase # "new" /\ deps.mounted
            => extents = << N(0), N(0), N(0) >> )

\* once the effects of the mount are flushed nothing is measured again
C10_MeasuredOnce ==
    deps.mounted =>
        /\ extents' = extents
        /\ lastMeasured' = lastMeasured
        /\ measurePasses' = measurePasses

\* C10, amended: with data and configuration fixed, the measured extents
\* start at zero and the first call uses those zeros; the measurements are
\* taken once, in the effect flush after the first paint, and schedule at
\* most one further call (none when no shown label measures an extent other
\* than zero), which is the second call; after that flush no measurement is
\* taken and the extents stay as they are, and the measurements schedule no
\* call again, while the timer and the hover handlers schedule further
\* calls.
C10_TwoPass ==
    /\ [](C10_FirstPassZeros /\ C10_MeasuredCallIsSecond)
    /\ [][C10_MeasuredOnce]_vars

\* a measurement scheduled the second call, and the timer a later one
C10_Witness ==
    /\ phase = "idle"
    /\ measurePasses = 1
    /\ cause = "event"
    /\ hasMounted
    /\ extents # << N(0), N(0), N(0) >>
\* the component has been torn down: removed by its parent, or discarded
\* with the tree after a call threw
TornDown == phase \in {"unmounted", "failed"}

\* C11: the entrance timer scheduled at mount is cancelled at teardown: no
\* torn-down component has a pending timer, and no step taken after the
\* teardown changes hasMounted, so a flag that was false at teardown stays
\* false, whatever the order of mount, timer expiry and teardown.
C11_TimerCancelled ==
    /\ [](TornDown => timer # "pending")
    /\ [][TornDown => hasMounted' = hasMounted]_vars

\* the component was torn down while the timer was pending
C11_Witness ==
    /\ TornDown
    /\ timer = "cleared"
    /\ ~hasMounted

\* C12: for every visible bar at slice position i, the delay of the fill
\* transition of the rest state is 0.05*i + sliceLength*0.075 in a pass made
\* while hasMounted is false and 0 in a pass made once it is true; the delay
\* of y and height is i*0.1 in both.
C12_FillDelay ==
    Mounted =>
        LET o == Output
        IN  \A j \in 1..Len(o.bars) :
              /\ o.bars[j].fillDelay =
                    (IF hasMounted THEN N(0)
                     ELSE Q(50 * (j - 1) + 75 * Len(o.data), 1000))
              /\ o.bars[j].delay = Q(j - 1, 10)

\* a pass with several bars made after the entrance timer fired
C12_Witness ==
    /\ Mounted
    /\ hasMounted
    /\ timer = "fired"
    /\ Len(Output.bars) >= 2

\* C13: whenever a call evaluates the tooltip branch (hoveredIndex is not
\* null and hasMounted is true), hoveredIndex is a position of the current
\* slice, 0 <= hoveredIndex < slice length, so the tooltip reads a data
\* point that exists.
C13_HoveredInSlice ==
    (phase # "new" /\ TooltipGuard(hoveredIndex, hasMounted)) =>
        /\ 0 <= hoveredIndex
        /\ hoveredIndex < Len(Slice(props))
        /\ phase # "failed"

\* C14: in every reachable state the three stored extents (yLabelWidth,
\* xLabelWidth, labelsTickXHeight) are finite and not negative, also after
\* the tick-label effect ran with showLabelsTickX true and every registered
\* tick-label element removed; so the canvas height is finite.
C14_ExtentsFinite ==
    /\ \A k \in 1..3 : IsFinite(extents[k]) /\ Ge(extents[k], N(0))
    /\ (Mounted => IsFinite(Output.svgHeight))

====
